---- MODULE Spec2Model ----
(***************************************************************************)
(* The directory segment (src/core/segments/directory.rs) and the width    *)
(* engine with its terminal-width resolver (src/main.rs) of ccline.        *)
(*                                                                         *)
(* A string is a sequence of characters; a character is a one-element      *)
(* token.  Option<T> is a sequence of length 0 (None) or 1 (Some).         *)
(***************************************************************************)
EXTENDS Integers, Sequences, FiniteSets, TLC

VARIABLES
    pc,                 \* position of the run
    current_dir,        \* input.workspace.current_dir
    show_full_path,     \* DirectorySegment.show_full_path
    segment,            \* what collect returned (Option<SegmentData>)
    segment_again,      \* what a second collect on the same input returned
    text,               \* the styled line handed to truncate_to_terminal_width
    max_width,          \* the local max_width of truncate_to_terminal_width
    result,             \* the line truncate_to_terminal_width returned
    stderr_is_terminal, \* io::stderr().is_terminal()
    stderr_size,        \* terminal_size_of(&stderr), Option
    COLUMNS,            \* env::var("COLUMNS"), Option<String>
    stdout_size,        \* terminal_size(), Option
    term_width,         \* what get_terminal_width returned, Option
    consulted           \* the sources get_terminal_width has queried, in order

vars == <<pc, current_dir, show_full_path, segment, segment_again, text,
          max_width, result, stderr_is_terminal, stderr_size, COLUMNS,
          stdout_size, term_width, consulted>>

dirVars == <<current_dir, show_full_path, segment, segment_again>>
lineVars == <<text, max_width, result>>
envVars == <<stderr_is_terminal, stderr_size, COLUMNS, stdout_size>>
resolverVars == <<term_width, consulted>>

None == <<>>
Some(x) == <<x>>

\* Bounds of the model: the longest current_dir, the longest styled line and
\* the largest budget handed to the truncation alone, and the longest styled
\* line of a whole run.
MaxPathLen == 5
MaxTextLen == 6
MaxBudget == 9
MaxLineLen == 3

Strings(chars, n) == UNION {[1..k -> chars] : k \in 0..n}

RECURSIVE Sum(_, _)
Sum(f, s) == IF s = <<>> THEN 0 ELSE f[Head(s)] + Sum(f, Tail(s))

(***************************************************************************)
(* Directory segment                                                       *)
(***************************************************************************)

\* '/', '\', ':', an ASCII letter, a two-byte letter (U+00E9) and a newline.
PathChars == {"/", "\\", ":", "a", "e'", "\n"}

Separators == {"/", "\\"}

\* UTF-8 length of one character: str::len counts bytes.
Utf8Len == [c \in PathChars |-> IF c = "e'" THEN 2 ELSE 1]

\* str::len
ByteLen(s) == Sum(Utf8Len, s)

\* path.trim_end_matches(['/', '\\'])
RECURSIVE trim_end_matches(_)
trim_end_matches(path) ==
    IF path # <<>> /\ path[Len(path)] \in Separators
    THEN trim_end_matches(SubSeq(path, 1, Len(path) - 1))
    ELSE path

\* path.split(sep).next_back().unwrap_or(""): the piece after the last sep,
\* the whole path when sep does not occur.
split_next_back(path, sep) ==
    LET at == {i \in 1..Len(path) : path[i] = sep}
        last == IF at = {} THEN 0 ELSE CHOOSE i \in at : \A j \in at : j <= i
    IN SubSeq(path, last + 1, Len(path))

\* trimmed.len() == 2 && trimmed.chars().nth(1) == Some(':')
is_drive_root(trimmed) ==
    ByteLen(trimmed) = 2 /\ Len(trimmed) >= 2 /\ trimmed[2] = ":"

choose_name_unix_first(path, unix_name, windows_name) ==
    IF ByteLen(unix_name) < ByteLen(path) THEN unix_name
    ELSE IF ByteLen(windows_name) < ByteLen(path) THEN windows_name
    ELSE path

\* "Choose the name that indicates actual path splitting occurred"
choose_name(path, unix_name, windows_name) ==
    IF ByteLen(windows_name) < ByteLen(path) THEN windows_name
    ELSE IF ByteLen(unix_name) < ByteLen(path) THEN unix_name
    ELSE path

extract_directory_name(path) ==
    LET trimmed == trim_end_matches(path) IN
    IF is_drive_root(trimmed)
    THEN trimmed \o <<"\\">>
    ELSE LET unix_name == split_next_back(path, "/")
             windows_name == split_next_back(path, "\\")
             chosen == choose_name(path, unix_name, windows_name)
         IN IF chosen = <<>> THEN <<"r", "o", "o", "t">> ELSE chosen

collect_swapped(dir, full) ==
    LET dir_name == IF full THEN dir ELSE extract_directory_name(dir)
    IN Some([primary |-> dir_name,
             secondary |-> <<>>,
             metadata |-> [full_path |-> dir_name]])

\* Segment::collect for DirectorySegment
collect(dir, full) ==
    LET dir_name == IF full THEN dir ELSE extract_directory_name(dir)
    IN Some([primary |-> dir_name,
             secondary |-> <<>>,
             metadata |-> [full_path |-> dir]])

\* The parts of the run a specification leaves out stay as they start.
InitIdleDirectory ==
    /\ current_dir = <<>> /\ show_full_path = FALSE
    /\ segment = None /\ segment_again = None

InitIdleResolver ==
    /\ stderr_is_terminal = FALSE /\ stderr_size = None
    /\ COLUMNS = None /\ stdout_size = None
    /\ term_width = None /\ consulted = <<>>

InitIdleLine ==
    /\ text = <<>> /\ max_width = 0 /\ result = <<>>
    /\ InitIdleResolver

InitDirectory ==
    /\ pc = "collect"
    /\ current_dir \in Strings(PathChars, MaxPathLen)
    /\ show_full_path \in BOOLEAN
    /\ segment = None
    /\ segment_again = None
    /\ InitIdleLine

Collect ==
    /\ pc = "collect"
    /\ segment' = collect(current_dir, show_full_path)
    /\ pc' = "recollect"
    /\ UNCHANGED <<current_dir, show_full_path, segment_again>>
    /\ UNCHANGED <<lineVars, envVars, resolverVars>>

CollectAgain ==
    /\ pc = "recollect"
    /\ segment_again' = collect(current_dir, show_full_path)
    /\ pc' = "done"
    /\ UNCHANGED <<current_dir, show_full_path, segment>>
    /\ UNCHANGED <<lineVars, envVars, resolverVars>>

NextDirectory == Collect \/ CollectAgain

SpecDirectory == InitDirectory /\ [][NextDirectory]_vars

(***************************************************************************)
(* Properties of the directory segment                                     *)
(***************************************************************************)

Range(s) == {s[i] : i \in 1..Len(s)}

Collected == pc \in {"recollect", "done"}

EndsInSeparator(p) == p # <<>> /\ p[Len(p)] \in Separators

\* p without its trailing separators.
RECURSIVE StripTrailing(_)
StripTrailing(p) ==
    IF EndsInSeparator(p) THEN StripTrailing(SubSeq(p, 1, Len(p) - 1)) ELSE p

\* The text of p after the last c.
RECURSIVE AfterLast(_, _)
AfterLast(p, c) ==
    IF p = <<>> \/ p[Len(p)] = c THEN <<>>
    ELSE Append(AfterLast(SubSeq(p, 1, Len(p) - 1), c), p[Len(p)])

Root == <<"r", "o", "o", "t">>

\* The name of a path that is no drive root: the text after its last '\',
\* else after its last '/', else the path; "root" when that is empty.
RefBasename(p) ==
    LET t == IF "\\" \in Range(p) THEN AfterLast(p, "\\")
             ELSE IF "/" \in Range(p) THEN AfterLast(p, "/")
             ELSE p
    IN IF t = <<>> THEN Root ELSE t

\* One character followed by ':'.
CharDrive(s) == Len(s) = 2 /\ s[2] = ":"

\* One single-byte character followed by ':'.
ByteDrive(s) == Len(s) = 2 /\ s[2] = ":" /\ Utf8Len[s[1]] = 1

\* C1: for every path ending in one or more separators the extracted name is
\* the name extracted from the path with its trailing separators removed.
C1_TrailingSeparatorsIgnored ==
    (Collected /\ ~show_full_path /\ EndsInSeparator(current_dir))
        => segment[1].primary
             = extract_directory_name(StripTrailing(current_dir))

\* C7 as stated: for a path with no trailing separator, or whose stripped
\* form is one character followed by ':', the name is the stripped drive
\* plus a backslash for a drive, else the text after the last '\', else
\* after the last '/', else the path, "root" when that is empty; the name
\* is never empty.
C7_ReferenceName_CharDrive ==
    (Collected /\ ~show_full_path
       /\ (~EndsInSeparator(current_dir) \/ CharDrive(StripTrailing(current_dir))))
        => /\ segment[1].primary
                = IF CharDrive(StripTrailing(current_dir))
                  THEN StripTrailing(current_dir) \o <<"\\">>
                  ELSE RefBasename(current_dir)
           /\ segment[1].primary # <<>>

\* C7 amended: the same, a bare drive being one single-byte character
\* followed by ':' (two bytes in all).
C7_ReferenceName ==
    (Collected /\ ~show_full_path
       /\ (~EndsInSeparator(current_dir) \/ ByteDrive(StripTrailing(current_dir))))
        => /\ segment[1].primary
                = IF ByteDrive(StripTrailing(current_dir))
                  THEN StripTrailing(current_dir) \o <<"\\">>
                  ELSE RefBasename(current_dir)
           /\ segment[1].primary # <<>>

\* A path with a '/' after its last '\' was named by the text after the '\'.
C7_Witness ==
    /\ pc = "done" /\ ~show_full_path
    /\ current_dir = <<"a", "\\", "a", "/", "a">>
    /\ segment[1].primary = <<"a", "/", "a">>

C9_PrimarySingleLine ==
    Collected => "\n" \notin Range(segment[1].primary)

(***************************************************************************)
(* Width engine                                                            *)
(***************************************************************************)

\* Characters of a styled line: ESC (U+001B); "m" and "a", alphabetic and at
\* most U+00FF; "[", "0" and ".", not alphabetic and at most U+00FF; "CJK",
\* an alphabetic character above U+00FF; "ARROW", a character above U+00FF
\* that is not alphabetic.
ESC == "ESC"

TextChars == {ESC, "m", "0", "CJK", "ARROW"}

\* char::is_alphabetic
is_alphabetic(ch) == ch \in {"m", "a", "CJK"}

\* if ch > '\u{FF}' { 2 } else { 1 }
char_width(ch) == IF ch \in {"CJK", "ARROW"} THEN 2 ELSE 1

\* usize::saturating_sub
saturating_sub(a, b) == IF a >= b THEN a - b ELSE 0

\* The loop of visible_width from character i on.
RECURSIVE visible_scan(_, _, _, _)
visible_scan(t, i, width, in_escape) ==
    IF i > Len(t) THEN width
    ELSE LET ch == t[i] IN
         IF ch = ESC THEN visible_scan(t, i + 1, width, TRUE)
         ELSE IF in_escape
              THEN visible_scan(t, i + 1, width, ~is_alphabetic(ch))
              ELSE visible_scan(t, i + 1, width + char_width(ch), FALSE)

visible_width(t) == visible_scan(t, 1, 0, FALSE)

fits_strictly(current_width, max) == current_width < max

\* if current_width <= max_width { return text.to_string(); }
fits(current_width, max) == current_width <= max

cut_without_reserve(width, ch, max) == width + char_width(ch) > max

\* if width + char_width > max_width.saturating_sub(3)
cut_reached(width, ch, max) ==
    width + char_width(ch) > saturating_sub(max, 3)

ellipsis_only == <<".", ".", ".">>

\* "...\x1b[0m"
ellipsis_reset == <<".", ".", ".", ESC, "[", "0", "m">>

\* The truncation loop with the budget test made before the escape test.
RECURSIVE truncate_scan_splitting(_, _, _, _, _, _)
truncate_scan_splitting(t, i, width, in_escape, out, max) ==
    IF i > Len(t) THEN out
    ELSE LET ch == t[i] IN
         IF ch = ESC
         THEN truncate_scan_splitting(t, i + 1, width, TRUE, Append(out, ch), max)
         ELSE IF cut_reached(width, ch, max)
              THEN out \o ellipsis_reset
              ELSE IF in_escape
                   THEN truncate_scan_splitting(t, i + 1, width,
                                ~is_alphabetic(ch), Append(out, ch), max)
                   ELSE truncate_scan_splitting(t, i + 1,
                                width + char_width(ch), FALSE, Append(out, ch), max)

\* The truncation loop from character i on.
RECURSIVE truncate_scan(_, _, _, _, _, _)
truncate_scan(t, i, width, in_escape, out, max) ==
    IF i > Len(t) THEN out
    ELSE LET ch == t[i] IN
         IF ch = ESC
         THEN truncate_scan(t, i + 1, width, TRUE, Append(out, ch), max)
         ELSE IF in_escape
              THEN truncate_scan(t, i + 1, width, ~is_alphabetic(ch),
                                 Append(out, ch), max)
              ELSE IF cut_reached(width, ch, max)
                   THEN out \o ellipsis_reset
                   ELSE truncate_scan(t, i + 1, width + char_width(ch), FALSE,
                                      Append(out, ch), max)

\* truncate_to_terminal_width once max_width is known.
truncate_to_width(t, max) ==
    IF fits(visible_width(t), max) THEN t
    ELSE truncate_scan(t, 1, 0, FALSE, <<>>, max)

\* The run at the point where max_width has been computed.
InitWidth ==
    /\ pc = "truncate"
    /\ text \in Strings(TextChars, MaxTextLen)
    /\ max_width \in 0..MaxBudget
    /\ result = <<>>
    /\ InitIdleDirectory
    /\ InitIdleResolver

Truncate ==
    /\ pc = "truncate"
    /\ result' = truncate_to_width(text, max_width)
    /\ pc' = "done"
    /\ UNCHANGED <<text, max_width, dirVars, envVars, resolverVars>>

NextWidth == Truncate

SpecWidth == InitWidth /\ [][NextWidth]_vars

(***************************************************************************)
(* Properties of the width engine                                          *)
(***************************************************************************)

Truncated == pc = "done"

\* Three dots, then ESC [ 0 m.
Suffix == <<".", ".", ".", "ESC", "[", "0", "m">>

Prefix(t, k) == SubSeq(t, 1, k)

\* Character j of t belongs to an escape sequence: it is an ESC, or an ESC
\* before it has no alphabetic character between the two.
EscapeChar(t, j) ==
    \/ t[j] = "ESC"
    \/ \E i \in 1..(j - 1) :
          /\ t[i] = "ESC"
          /\ \A n \in (i + 1)..(j - 1) : ~is_alphabetic(t[n])

\* The columns of the characters of t outside escape sequences.
RECURSIVE PlainWidth(_, _)
PlainWidth(t, k) ==
    IF k = 0 THEN 0
    ELSE PlainWidth(t, k - 1)
           + (IF EscapeChar(t, k) THEN 0 ELSE char_width(t[k]))

\* C2: for every text and every budget w >= 4 the truncated line has
\* visible width at most w.
C2_FitsBudgetFromFour ==
    (Truncated /\ max_width >= 4) => visible_width(result) <= max_width

\* A wide character stood at the cut point of a budget of 5.
C2_Witness ==
    /\ Truncated /\ max_width = 5
    /\ text = <<"0", "CJK", "CJK", "0">>
    /\ result = <<"0">> \o Suffix
    /\ visible_width(result) = 4

\* C4: a text whose visible width is at most the budget is returned
\* unchanged, so truncating to the text's own width changes nothing.
C4_FittingTextUnchanged ==
    (Truncated /\ visible_width(text) <= max_width)
        => /\ result = text
           /\ visible_width(result) = visible_width(text)

\* A styled text as wide as its budget came back unchanged.
C4_Witness ==
    /\ Truncated /\ max_width = 4
    /\ text = <<"ESC", "0", "m", "CJK", "CJK">>
    /\ result = text

\* C5: whenever the result differs from the text it is a prefix of the text
\* followed by the suffix; every ESC of that prefix is followed in it by an
\* alphabetic terminator; the prefix is cut at a character outside escape
\* sequences, the first whose columns, added to those of the characters
\* outside escape sequences before it, exceed the budget less three.
C5_NoEscapeSplit ==
    (Truncated /\ result # text) =>
        \E k \in 0..(Len(text) - 1) :
            /\ result = Prefix(text, k) \o Suffix
            /\ \A i \in 1..k :
                   text[i] = "ESC" => \E j \in (i + 1)..k : is_alphabetic(text[j])
            /\ ~EscapeChar(text, k + 1)
            /\ PlainWidth(text, k) <= saturating_sub(max_width, 3)
            /\ PlainWidth(text, k) + char_width(text[k + 1])
                   > saturating_sub(max_width, 3)

\* An escape sequence was copied whole in front of a cut although the budget
\* left room for one column only.
C5_Witness ==
    /\ Truncated /\ max_width = 4
    /\ text = <<"0", "ESC", "m", "CJK", "CJK">>
    /\ result = <<"0", "ESC", "m">> \o Suffix

\* C6: a text wider than the budget comes back as a proper prefix of itself
\* followed by the suffix "..." ESC [ 0 m, once, and by nothing else.
C6_CutEndsInSuffix ==
    (Truncated /\ visible_width(text) > max_width) =>
        \E k \in 0..(Len(text) - 1) :
            /\ result = Prefix(text, k) \o Suffix
            /\ Len(result) = k + 7

\* A text was cut in front of an escape sequence, which was dropped.
C6_Witness ==
    /\ Truncated /\ max_width = 4
    /\ text = <<"0", "CJK", "CJK", "ESC", "m">>
    /\ result = <<"0">> \o Suffix

(***************************************************************************)
(* Terminal-width resolver and the budget                                  *)
(***************************************************************************)

\* truncate_to_terminal_width(&statusline, 60)
percent == 60

reserved_for_context == 40

\* "Fallback: assume 120 char terminal, use 60%"
fallback_budget == 72

Digits == {"0", "1", "2", "3", "4", "5", "6", "7", "8", "9"}

DigitValue == [d \in Digits |->
    CASE d = "0" -> 0 [] d = "1" -> 1 [] d = "2" -> 2 [] d = "3" -> 3
      [] d = "4" -> 4 [] d = "5" -> 5 [] d = "6" -> 6 [] d = "7" -> 7
      [] d = "8" -> 8 [] d = "9" -> 9]

RECURSIVE decimal(_)
decimal(ds) ==
    IF ds = <<>> THEN 0
    ELSE 10 * decimal(SubSeq(ds, 1, Len(ds) - 1)) + DigitValue[ds[Len(ds)]]

\* cols.parse::<usize>(): an optional '+', then one or more decimal digits
\* and nothing else.
parse_usize(cols) ==
    LET ds == IF cols # <<>> /\ cols[1] = "+" THEN Tail(cols) ELSE cols IN
    IF ds # <<>> /\ \A i \in 1..Len(ds) : ds[i] \in Digits
    THEN Some(decimal(ds))
    ELSE None

\* Widths a terminal size query reports.
TermSizes == {41, 46, 120}

\* Values of COLUMNS.
ColumnsValues == {<<>>, <<"0">>, <<"4", "2">>, <<"+", "4", "5">>,
                  <<"4", "5", "x">>, <<"-", "1">>}

Option(S) == {None} \cup {Some(x) : x \in S}

Min(a, b) == IF a <= b THEN a ELSE b

\* The value of max_width in truncate_to_terminal_width.
budget(width) ==
    IF width # None
    THEN LET available == saturating_sub(width[1], reserved_for_context)
         IN Min((width[1] * percent) \div 100, available)
    ELSE fallback_budget

\* main, at the call of truncate_to_terminal_width on the rendered line.
\* A size query on stderr succeeds only when stderr is a terminal.
Init ==
    /\ pc = "stderr"
    /\ text \in Strings(TextChars, MaxLineLen)
    /\ max_width = 0
    /\ result = <<>>
    /\ stderr_is_terminal \in BOOLEAN
    /\ stderr_size \in Option(TermSizes)
    /\ stderr_size # None => stderr_is_terminal
    /\ COLUMNS \in Option(ColumnsValues)
    /\ stdout_size \in Option(TermSizes)
    /\ term_width = None
    /\ consulted = <<>>
    /\ InitIdleDirectory

\* Method 1: terminal_size on stderr, if stderr is a terminal.
Method1Stderr ==
    /\ pc = "stderr"
    /\ IF stderr_is_terminal
       THEN /\ consulted' = consulted \o <<"stderr_is_terminal", "stderr_size">>
            /\ IF stderr_size # None
               THEN term_width' = stderr_size /\ pc' = "budget"
               ELSE term_width' = term_width /\ pc' = "columns"
       ELSE /\ consulted' = Append(consulted, "stderr_is_terminal")
            /\ term_width' = term_width
            /\ pc' = "columns"
    /\ UNCHANGED <<lineVars, dirVars, envVars>>

Method2ColumnsGivesUp ==
    /\ pc = "columns"
    /\ consulted' = Append(consulted, "COLUMNS")
    /\ IF COLUMNS # None
       THEN term_width' = parse_usize(COLUMNS[1]) /\ pc' = "budget"
       ELSE term_width' = None /\ pc' = "stdout"
    /\ UNCHANGED <<lineVars, dirVars, envVars>>

\* Method 2: the COLUMNS environment variable.
Method2Columns ==
    /\ pc = "columns"
    /\ consulted' = Append(consulted, "COLUMNS")
    /\ IF COLUMNS # None /\ parse_usize(COLUMNS[1]) # None
       THEN term_width' = parse_usize(COLUMNS[1]) /\ pc' = "budget"
       ELSE term_width' = term_width /\ pc' = "stdout"
    /\ UNCHANGED <<lineVars, dirVars, envVars>>

\* Method 3: terminal_size on stdout; None when it fails too.
Method3Stdout ==
    /\ pc = "stdout"
    /\ consulted' = Append(consulted, "stdout_size")
    /\ term_width' = stdout_size
    /\ pc' = "budget"
    /\ UNCHANGED <<lineVars, dirVars, envVars>>

\* let max_width = ...
ComputeBudget ==
    /\ pc = "budget"
    /\ max_width' = budget(term_width)
    /\ pc' = "truncate"
    /\ UNCHANGED <<text, result, dirVars, envVars, resolverVars>>

Next ==
    \/ Method1Stderr
    \/ Method2Columns
    \/ Method3Stdout
    \/ ComputeBudget
    \/ Truncate

Spec == Init /\ [][Next]_vars

(***************************************************************************)
(* Properties of the resolver and the budget                               *)
(***************************************************************************)

Resolved == pc \in {"budget", "truncate", "done"}

StderrSucceeds == stderr_is_terminal /\ stderr_size # None

ColumnsSucceeds == COLUMNS # None /\ parse_usize(COLUMNS[1]) # None

\* C3: whatever width was detected, the returned line has at most
\* min(W * 60 / 100, W - 40 or 0) visible columns, and at most 72 when no
\* width was detected.
C3_LineFitsComputedBudget ==
    pc = "done" =>
        visible_width(result)
            <= IF term_width = None THEN 72
               ELSE Min((term_width[1] * 60) \div 100,
                        IF term_width[1] >= 40 THEN term_width[1] - 40 ELSE 0)

\* C10: the resolver returns the first success of stderr (a terminal whose
\* size query succeeds), COLUMNS (set and parsed, 0 included), stdout (size
\* query alone), and nothing when all fail; no source is queried after an
\* earlier one succeeded; an unparseable COLUMNS leads on to stdout; with
\* nothing returned the budget is 72.
C10_FirstSuccessWins ==
    /\ Resolved =>
         /\ term_width = IF StderrSucceeds THEN stderr_size
                         ELSE IF ColumnsSucceeds THEN parse_usize(COLUMNS[1])
                         ELSE stdout_size
         /\ consulted =
              (IF stderr_is_terminal
               THEN <<"stderr_is_terminal", "stderr_size">>
               ELSE <<"stderr_is_terminal">>)
              \o (IF StderrSucceeds THEN <<>> ELSE <<"COLUMNS">>)
              \o (IF StderrSucceeds \/ ColumnsSucceeds THEN <<>>
                  ELSE <<"stdout_size">>)
    /\ (pc \in {"truncate", "done"} /\ term_width = None) => max_width = 72

\* With stderr no terminal and COLUMNS set but unparseable, the width came
\* from stdout.
C10_Witness ==
    /\ pc = "done"
    /\ ~stderr_is_terminal
    /\ COLUMNS = Some(<<"4", "5", "x">>)
    /\ stdout_size = Some(46)
    /\ term_width = Some(46)
    /\ max_width = 6

====
